---------------------------- MODULE Spec2Model ----------------------------
(***************************************************************************)
(* Keystone Layout: the flat C API of src/rust_ffi/layout/src/lib.rs over  *)
(* a taffy::TaffyTree.                                                     *)
(*                                                                         *)
(* The tree is the three slot maps of TaffyTree (nodes, children, parents) *)
(* keyed by node handle.  A handle is a slot-map key (index + version), so *)
(* a removed node's handle never resolves again and a new node never gets  *)
(* an old handle: handles are modelled as fresh integers 1, 2, 3, ...      *)
(*                                                                         *)
(* Every entry point is an `extern "C"` function.  A Rust panic inside one *)
(* (an `unwrap()` on Err/None, or an index into a slot map with a key that *)
(* does not resolve) cannot unwind into the caller: the process aborts.    *)
(* That outcome is the variable `aborted`; no call is made afterwards.     *)
(*                                                                         *)
(* The behaviour of TaffyTree behind each call is that of the taffy crate  *)
(* whose API the source uses (GridTemplateComponent, taffy 0.9): its       *)
(* accessors index the slot maps directly and so panic, rather than return *)
(* Err, on a key that resolves to no node.                                 *)
(*                                                                         *)
(* f32 arguments are modelled as integers (no claim depends on rounding).  *)
(***************************************************************************)
EXTENDS Integers, Sequences, FiniteSets, TLC

\* ------------------------------------------------------------------ bounds
\* Number of nodes ever created on one tree (handles 1..MaxNodes).
MaxNodes == 2
\* Longest child list the model builds.
MaxChildren == 2
\* Longest grid track list passed to a grid-template setter.
MaxTracks == 3
\* Number of style commits explored from the initial style.
MaxEdits == 2
\* Number of style commits explored when every u8 value is tried.
MaxEnumEdits == 1

Handles == 1..MaxNodes
\* Option<NodeId>::None of a parent link.
NoParent == 0

VARIABLES
    nodes,          \* live handles: the keys of TaffyTree.nodes
    nextId,         \* the handle the next created node gets
    style,          \* style[n]: NodeData.style of live node n
    children,       \* children[n]: TaffyTree.children[n], a sequence of handles
    parents,        \* parents[n]: TaffyTree.parents[n], a handle or NoParent
    final_layout,   \* final_layout[n]: NodeData.final_layout of live node n
    laidOut,        \* history: live nodes some layout_compute has laid out
    out,            \* the caller's (x, y, w, h) output buffer of layout_get_result
    aborted,        \* the process aborted inside a call
    budget,         \* bound of the model: style commits still to explore
    last            \* history: the last call, its arguments, its return value,
                    \*   and the child list its first handle had before the call

vars == <<nodes, nextId, style, children, parents, final_layout, laidOut,
          out, aborted, budget, last>>

\* The tree proper: what "the tree is unchanged" is about.
tree == <<nodes, style, children, parents, final_layout>>

Range(s) == {s[i] : i \in 1..Len(s)}

\* ------------------------------------------------------------------ values
\* Option<T>: None is the empty tuple, Some(x) the one-element tuple.
NoneOpt == <<>>
Some(x) == <<x>>

\* Dimension / LengthPercentage / LengthPercentageAuto / track sizing values.
Auto == <<"Auto", 0>>
Length(v) == <<"Length", v>>
\* Dimension::percent(val / 100.0): the stored fraction, kept in hundredths.
Percent(hundredths) == <<"Percent", hundredths>>
Fr(v) == <<"Fr", v>>

Abs(v) == IF v < 0 THEN -v ELSE v
Max(a, b) == IF a >= b THEN a ELSE b

Rect(v) == [left |-> v, top |-> v, right |-> v, bottom |-> v]

\* GridPlacement::from_line_index / from_span / Auto.
LineIndex(i) == <<"Line", i>>
Span(n) == <<"Span", n>>

\* Style::default(), the style of every new node.
DefaultStyle ==
    [ display |-> "Flex", flex_direction |-> "Row", flex_wrap |-> "NoWrap",
      flex_grow |-> 0, flex_shrink |-> 1, flex_basis |-> Auto,
      align_items |-> NoneOpt, justify_content |-> NoneOpt, align_self |-> NoneOpt,
      size |-> [width |-> Auto, height |-> Auto],
      min_size |-> [width |-> Auto, height |-> Auto],
      max_size |-> [width |-> Auto, height |-> Auto],
      padding |-> Rect(Length(0)), margin |-> Rect(Length(0)),
      gap |-> [width |-> Length(0), height |-> Length(0)],
      position |-> "Relative", inset |-> Rect(Auto),
      aspect_ratio |-> NoneOpt,
      grid_template_columns |-> <<>>, grid_template_rows |-> <<>>,
      grid_row |-> [start |-> Auto, end |-> Auto],
      grid_column |-> [start |-> Auto, end |-> Auto],
      overflow |-> [x |-> "Visible", y |-> "Visible"] ]

\* Layout::new(): the layout a node holds before any computation.
ZeroBox == [x |-> 0, y |-> 0, w |-> 0, h |-> 0]
\* A box the layout algorithm may produce.
SomeBox == [x |-> 0, y |-> 0, w |-> 100, h |-> 100]
\* The boxes the external layout algorithm (a black box) may assign to a node.
Boxes == {ZeroBox, SomeBox}
\* The values a caller pre-seeds its output buffer with.
SentinelBox == [x |-> -1, y |-> -1, w |-> -1, h |-> -1]

\* ------------------------------------------------------- enum mapping tables
\* Variant of map_display with the table shifted to start at zero.
map_display_zero_based(display) ==
    CASE display = 0 -> "None"
      [] display = 1 -> "Grid"
      [] display = 2 -> "Block"
      [] OTHER -> "Flex"

map_display(display) ==
    CASE display = 1 -> "None"
      [] display = 2 -> "Grid"
      [] display = 3 -> "Block"
      [] OTHER -> "Flex"

map_flex_direction(dir) ==
    CASE dir = 1 -> "Row"
      [] dir = 2 -> "ColumnReverse"
      [] dir = 3 -> "RowReverse"
      [] OTHER -> "Column"

map_flex_wrap(wrap) ==
    CASE wrap = 1 -> "Wrap"
      [] wrap = 2 -> "WrapReverse"
      [] OTHER -> "NoWrap"

map_align_items(val) ==
    CASE val = 1 -> "FlexStart"
      [] val = 2 -> "Center"
      [] val = 3 -> "FlexEnd"
      [] val = 4 -> "Stretch"
      [] val = 5 -> "Baseline"
      [] OTHER -> "FlexStart"

map_justify_content(val) ==
    CASE val = 1 -> "FlexStart"
      [] val = 2 -> "Center"
      [] val = 3 -> "FlexEnd"
      [] val = 4 -> "SpaceBetween"
      [] val = 5 -> "SpaceAround"
      [] val = 6 -> "SpaceEvenly"
      [] OTHER -> "FlexStart"

map_align_self(val) ==
    CASE val = 1 -> "FlexStart"
      [] val = 2 -> "Center"
      [] val = 3 -> "FlexEnd"
      [] val = 4 -> "Stretch"
      [] val = 5 -> "Baseline"
      [] OTHER -> "FlexStart"

map_position_type(val) ==
    CASE val = 1 -> "Absolute"
      [] OTHER -> "Relative"

map_overflow(overflow) ==
    CASE overflow = 1 -> "Hidden"
      [] overflow = 2 -> "Scroll"
      [] OTHER -> "Visible"

\* --------------------------------------------------------------- edge setters
\* Variant of set_edge_lp where only selector 4 means all edges.
set_edge_lp_only_four(rect, edge, val) ==
    CASE edge = 0 -> [rect EXCEPT !.left = Length(val)]
      [] edge = 1 -> [rect EXCEPT !.top = Length(val)]
      [] edge = 2 -> [rect EXCEPT !.right = Length(val)]
      [] edge = 3 -> [rect EXCEPT !.bottom = Length(val)]
      [] edge = 4 -> [left |-> Length(val), top |-> Length(val),
                      right |-> Length(val), bottom |-> Length(val)]
      [] OTHER -> rect

set_edge_lp(rect, edge, val) ==
    CASE edge = 0 -> [rect EXCEPT !.left = Length(val)]
      [] edge = 1 -> [rect EXCEPT !.top = Length(val)]
      [] edge = 2 -> [rect EXCEPT !.right = Length(val)]
      [] edge = 3 -> [rect EXCEPT !.bottom = Length(val)]
      [] OTHER -> [left |-> Length(val), top |-> Length(val),
                   right |-> Length(val), bottom |-> Length(val)]

set_edge_lpa(rect, edge, val) ==
    CASE edge = 0 -> [rect EXCEPT !.left = Length(val)]
      [] edge = 1 -> [rect EXCEPT !.top = Length(val)]
      [] edge = 2 -> [rect EXCEPT !.right = Length(val)]
      [] edge = 3 -> [rect EXCEPT !.bottom = Length(val)]
      [] OTHER -> [left |-> Length(val), top |-> Length(val),
                   right |-> Length(val), bottom |-> Length(val)]

\* The closure of layout_set_position, which writes s.inset itself.
set_inset(rect, edge, val) ==
    CASE edge = 0 -> [rect EXCEPT !.left = Length(val)]
      [] edge = 1 -> [rect EXCEPT !.top = Length(val)]
      [] edge = 2 -> [rect EXCEPT !.right = Length(val)]
      [] edge = 3 -> [rect EXCEPT !.bottom = Length(val)]
      [] OTHER -> [left |-> Length(val), top |-> Length(val),
                   right |-> Length(val), bottom |-> Length(val)]

\* ------------------------------------------------------------ grid track codec
\* Variant of track_of that keeps the sign of a flexible share.
track_of_signed(v) ==
    IF v > 0 THEN [min |-> Length(v), max |-> Length(v)]
    ELSE IF v < 0 THEN [min |-> Length(0), max |-> Fr(v)]
    ELSE [min |-> Auto, max |-> Auto]

\* One element of parse_track_list: the MinMax built from one value.
track_of(v) ==
    IF v > 0 THEN [min |-> Length(v), max |-> Length(v)]
    ELSE IF v < 0 THEN [min |-> Length(0), max |-> Fr(Abs(v))]
    ELSE [min |-> Auto, max |-> Auto]

\* slice.iter().map(..).collect(): one track per value, in order.
parse_track_list(vals) == [i \in 1..Len(vals) |-> track_of(vals[i])]

\* The closure of layout_set_grid_placement on grid_row / grid_column.
place(line, idx, span) ==
    IF idx # 0 THEN [start |-> LineIndex(idx), end |-> Span(Max(span, 1))]
    ELSE line

\* ------------------------------------------------------------- style setters
\* The closure each setter hands to mutate_style, applied to the cloned style
\* s; a is the setter's arguments after the node handle.
apply_facet(fn, a, s) ==
    CASE fn = "layout_set_display" -> [s EXCEPT !.display = map_display(a[1])]
      [] fn = "layout_set_flex_direction" ->
            [s EXCEPT !.flex_direction = map_flex_direction(a[1])]
      [] fn = "layout_set_flex_wrap" -> [s EXCEPT !.flex_wrap = map_flex_wrap(a[1])]
      [] fn = "layout_set_flex_grow" -> [s EXCEPT !.flex_grow = a[1]]
      [] fn = "layout_set_flex_shrink" -> [s EXCEPT !.flex_shrink = a[1]]
      [] fn = "layout_set_flex_basis" -> [s EXCEPT !.flex_basis = Length(a[1])]
      [] fn = "layout_set_align_items" ->
            [s EXCEPT !.align_items = Some(map_align_items(a[1]))]
      [] fn = "layout_set_justify_content" ->
            [s EXCEPT !.justify_content = Some(map_justify_content(a[1]))]
      [] fn = "layout_set_align_self" ->
            [s EXCEPT !.align_self = Some(map_align_self(a[1]))]
      [] fn = "layout_set_width" -> [s EXCEPT !.size.width = Length(a[1])]
      [] fn = "layout_set_height" -> [s EXCEPT !.size.height = Length(a[1])]
      [] fn = "layout_set_width_percent" -> [s EXCEPT !.size.width = Percent(a[1])]
      [] fn = "layout_set_height_percent" -> [s EXCEPT !.size.height = Percent(a[1])]
      [] fn = "layout_set_min_width" -> [s EXCEPT !.min_size.width = Length(a[1])]
      [] fn = "layout_set_min_height" -> [s EXCEPT !.min_size.height = Length(a[1])]
      [] fn = "layout_set_max_width" -> [s EXCEPT !.max_size.width = Length(a[1])]
      [] fn = "layout_set_max_height" -> [s EXCEPT !.max_size.height = Length(a[1])]
      [] fn = "layout_set_padding" ->
            [s EXCEPT !.padding = set_edge_lp(s.padding, a[1], a[2])]
      [] fn = "layout_set_margin" ->
            [s EXCEPT !.margin = set_edge_lpa(s.margin, a[1], a[2])]
      [] fn = "layout_set_gap_row" -> [s EXCEPT !.gap.height = Length(a[1])]
      [] fn = "layout_set_gap_column" -> [s EXCEPT !.gap.width = Length(a[1])]
      [] fn = "layout_set_gap_all" ->
            [s EXCEPT !.gap = [width |-> Length(a[1]), height |-> Length(a[1])]]
      [] fn = "layout_set_position_type" ->
            [s EXCEPT !.position = map_position_type(a[1])]
      [] fn = "layout_set_position" ->
            [s EXCEPT !.inset = set_inset(s.inset, a[1], a[2])]
      [] fn = "layout_set_aspect_ratio" -> [s EXCEPT !.aspect_ratio = Some(a[1])]
      [] fn = "layout_set_grid_template_columns" ->
            [s EXCEPT !.grid_template_columns = parse_track_list(a[1])]
      [] fn = "layout_set_grid_template_rows" ->
            [s EXCEPT !.grid_template_rows = parse_track_list(a[1])]
      [] fn = "layout_set_grid_placement" ->
            [s EXCEPT !.grid_row = place(s.grid_row, a[1], a[3]),
                      !.grid_column = place(s.grid_column, a[2], a[4])]
      [] fn = "layout_set_overflow" ->
            [s EXCEPT !.overflow = [x |-> map_overflow(a[1]), y |-> map_overflow(a[1])]]

\* The record of a call kept in `last`.
Call(op, args, ret, pre) == [op |-> op, args |-> args, ret |-> ret, pre |-> pre]

\* A call that panics: the process aborts, nothing else is observable.
Abort(op, args) ==
    /\ aborted' = TRUE
    /\ last' = Call(op, args, 0, <<>>)
    /\ UNCHANGED <<nodes, nextId, style, children, parents, final_layout,
                   laidOut, out, budget>>

\* mutate_style: tree.style(node).unwrap() panics when the handle resolves to
\* no live node (TaffyTree::style indexes the node slot map); otherwise the
\* clone is changed by the closure and committed whole by set_style.
mutate_style(fn, node, a) ==
    /\ ~aborted
    /\ IF node \in nodes
       THEN /\ budget > 0
            /\ style' = [style EXCEPT ![node] = apply_facet(fn, a, @)]
            /\ budget' = budget - 1
            /\ last' = Call(fn, <<node>> \o a, 0, <<>>)
            /\ UNCHANGED <<nodes, nextId, children, parents, final_layout,
                           laidOut, out, aborted>>
       ELSE Abort(fn, <<node>> \o a)

layout_set_display(node, display) == mutate_style("layout_set_display", node, <<display>>)
layout_set_flex_direction(node, dir) == mutate_style("layout_set_flex_direction", node, <<dir>>)
layout_set_flex_wrap(node, wrap) == mutate_style("layout_set_flex_wrap", node, <<wrap>>)
layout_set_flex_grow(node, val) == mutate_style("layout_set_flex_grow", node, <<val>>)
layout_set_flex_shrink(node, val) == mutate_style("layout_set_flex_shrink", node, <<val>>)
layout_set_flex_basis(node, val) == mutate_style("layout_set_flex_basis", node, <<val>>)
layout_set_align_items(node, val) == mutate_style("layout_set_align_items", node, <<val>>)
layout_set_justify_content(node, val) == mutate_style("layout_set_justify_content", node, <<val>>)
layout_set_align_self(node, val) == mutate_style("layout_set_align_self", node, <<val>>)
layout_set_width(node, val) == mutate_style("layout_set_width", node, <<val>>)
layout_set_height(node, val) == mutate_style("layout_set_height", node, <<val>>)
layout_set_width_percent(node, val) == mutate_style("layout_set_width_percent", node, <<val>>)
layout_set_height_percent(node, val) == mutate_style("layout_set_height_percent", node, <<val>>)
layout_set_min_width(node, val) == mutate_style("layout_set_min_width", node, <<val>>)
layout_set_min_height(node, val) == mutate_style("layout_set_min_height", node, <<val>>)
layout_set_max_width(node, val) == mutate_style("layout_set_max_width", node, <<val>>)
layout_set_max_height(node, val) == mutate_style("layout_set_max_height", node, <<val>>)
layout_set_padding(node, edge, val) == mutate_style("layout_set_padding", node, <<edge, val>>)
layout_set_margin(node, edge, val) == mutate_style("layout_set_margin", node, <<edge, val>>)
layout_set_gap_row(node, val) == mutate_style("layout_set_gap_row", node, <<val>>)
layout_set_gap_column(node, val) == mutate_style("layout_set_gap_column", node, <<val>>)
layout_set_gap_all(node, val) == mutate_style("layout_set_gap_all", node, <<val>>)
layout_set_position_type(node, val) == mutate_style("layout_set_position_type", node, <<val>>)
layout_set_position(node, edge, val) == mutate_style("layout_set_position", node, <<edge, val>>)
layout_set_aspect_ratio(node, val) == mutate_style("layout_set_aspect_ratio", node, <<val>>)
layout_set_grid_template_columns(node, vals) ==
    mutate_style("layout_set_grid_template_columns", node, <<vals>>)
layout_set_grid_template_rows(node, vals) ==
    mutate_style("layout_set_grid_template_rows", node, <<vals>>)
layout_set_grid_placement(node, row, col, span_rows, span_cols) ==
    mutate_style("layout_set_grid_placement", node, <<row, col, span_rows, span_cols>>)
layout_set_overflow(node, overflow) == mutate_style("layout_set_overflow", node, <<overflow>>)

\* ------------------------------------------------------------------ topology
Extend(f, k, v) == [n \in DOMAIN f \cup {k} |-> IF n = k THEN v ELSE f[n]]
Restrict(f, S) == [n \in S |-> f[n]]
Without(seq, x) == SelectSeq(seq, LAMBDA e: e # x)

\* The handles reachable from `frontier` along child lists (live or not).
RECURSIVE ReachFrom(_, _, _)
ReachFrom(ch, frontier, seen) ==
    IF frontier \subseteq seen THEN seen
    ELSE LET new == frontier \ seen
             nxt == UNION {Range(ch[n]) : n \in new \cap DOMAIN ch}
         IN  ReachFrom(ch, nxt, seen \cup new)

\* The nodes a layout pass rooted at root visits.
Subtree(ch, root) == ReachFrom(ch, {root}, {})
\* The proper descendants of live node n.
Descendants(ch, n) == ReachFrom(ch, Range(ch[n]), {})
\* Some node of S is its own descendant.
HasCycle(ch, S) == \E n \in S \cap DOMAIN ch : n \in Descendants(ch, n)

\* Child lists a caller passes to layout_new_node_with_children.
KidSeqs == UNION {[1..k -> Handles] : k \in 0..MaxChildren}

\* layout_new_node: TaffyTree::new_leaf(Style::default()).
layout_new_node ==
    /\ ~aborted
    /\ nextId <= MaxNodes
    /\ nodes' = nodes \cup {nextId}
    /\ nextId' = nextId + 1
    /\ style' = Extend(style, nextId, DefaultStyle)
    /\ children' = Extend(children, nextId, <<>>)
    /\ parents' = Extend(parents, nextId, NoParent)
    /\ final_layout' = Extend(final_layout, nextId, ZeroBox)
    /\ last' = Call("layout_new_node", <<>>, nextId, <<>>)
    /\ UNCHANGED <<laidOut, out, aborted, budget>>

\* layout_new_node_with_children: TaffyTree::new_with_children.  It points
\* parents[child] at the new node for every listed child (an index that
\* panics on a handle that resolves to no node) and stores the list as given;
\* no child is taken out of the list of the parent it had.
layout_new_node_with_children(kids) ==
    /\ ~aborted
    /\ nextId <= MaxNodes
    /\ IF Range(kids) \subseteq nodes
       THEN /\ nodes' = nodes \cup {nextId}
            /\ nextId' = nextId + 1
            /\ style' = Extend(style, nextId, DefaultStyle)
            /\ children' = Extend(children, nextId, kids)
            /\ parents' = Extend([c \in nodes |-> IF c \in Range(kids) THEN nextId
                                                    ELSE parents[c]],
                                 nextId, NoParent)
            /\ final_layout' = Extend(final_layout, nextId, ZeroBox)
            /\ last' = Call("layout_new_node_with_children", <<kids>>, nextId, <<>>)
            /\ UNCHANGED <<laidOut, out, aborted, budget>>
       ELSE Abort("layout_new_node_with_children", <<kids>>)

\* Variant of push_child that puts the child first.
push_child_front(list, child) == <<child>> \o list

\* Vec::push of add_child: the child goes to the end of the list.
push_child(list, child) == Append(list, child)

\* layout_add_child: TaffyTree::add_child sets parents[child], pushes child on
\* children[parent] and marks parent dirty; both indexings panic on a handle
\* that resolves to no node.  The child is not taken out of any list.
layout_add_child(parent, child) ==
    /\ ~aborted
    /\ IF parent \in nodes /\ child \in nodes
       THEN /\ Len(children[parent]) < MaxChildren
            /\ parents' = [parents EXCEPT ![child] = parent]
            /\ children' = [children EXCEPT ![parent] = push_child(@, child)]
            /\ last' = Call("layout_add_child", <<parent, child>>, 0, children[parent])
            /\ UNCHANGED <<nodes, nextId, style, final_layout, laidOut, out,
                           aborted, budget>>
       ELSE Abort("layout_add_child", <<parent, child>>)

\* The child lists after TaffyTree::remove took node out of the list of its
\* recorded parent (children.get_mut(parent).retain(..)).
detach(ch, par, node) ==
    IF par[node] # NoParent /\ par[node] \in DOMAIN ch
    THEN [ch EXCEPT ![par[node]] = Without(@, node)]
    ELSE ch

\* Variant of deleted that takes the whole subtree.
deleted_subtree(ch, node) == {node} \cup Descendants(ch, node)

\* The nodes TaffyTree::remove deletes from the slot maps: the node itself.
deleted(ch, node) == {node}

\* layout_remove_node: TaffyTree::remove.  parents[node] panics on a handle
\* that resolves to no node.  Otherwise the node leaves its recorded parent's
\* list, every node of its own list gets parents[child] = None (an index that
\* panics on a stale entry), and the node alone is deleted from the maps.
layout_remove_node(node) ==
    /\ ~aborted
    /\ IF node \in nodes
       THEN LET ch1 == detach(children, parents, node)
                kids == Range(ch1[node])
                keep == nodes \ deleted(ch1, node)
            IN  IF kids \subseteq nodes
                THEN /\ nodes' = keep
                     /\ children' = Restrict(ch1, keep)
                     /\ parents' = [c \in keep |-> IF c \in kids THEN NoParent
                                                   ELSE parents[c]]
                     /\ style' = Restrict(style, keep)
                     /\ final_layout' = Restrict(final_layout, keep)
                     /\ laidOut' = laidOut \cap keep
                     /\ last' = Call("layout_remove_node", <<node>>, 0, children[node])
                     /\ UNCHANGED <<nextId, out, aborted, budget>>
                ELSE Abort("layout_remove_node", <<node>>)
       ELSE Abort("layout_remove_node", <<node>>)

\* ------------------------------------------------------- compute and results
\* Available sizes passed to layout_compute.
Avail == {100}

\* layout_compute: TaffyTree::compute_layout reads the root's style through
\* an index that panics on a handle that resolves to no node, and likewise
\* every node it walks to.  The layout algorithm is external: each visited
\* node gets some box.  On a child cycle the recursion may never end (stack
\* exhaustion) or be cut short by the layout cache.
layout_compute(node, width, height) ==
    /\ ~aborted
    /\ IF node \in nodes /\ Subtree(children, node) \subseteq nodes
       THEN \/ /\ \E boxes \in [Subtree(children, node) -> Boxes] :
                     final_layout' = [n \in nodes |->
                         IF n \in DOMAIN boxes THEN boxes[n] ELSE final_layout[n]]
               /\ laidOut' = laidOut \cup Subtree(children, node)
               /\ last' = Call("layout_compute", <<node, width, height>>, 0, <<>>)
               /\ UNCHANGED <<nodes, nextId, style, children, parents, out,
                              aborted, budget>>
            \/ /\ HasCycle(children, Subtree(children, node))
               /\ Abort("layout_compute", <<node, width, height>>)
       ELSE Abort("layout_compute", <<node, width, height>>)

\* layout_get_result: TaffyTree::layout returns Ok(&nodes[node].final_layout)
\* for every live node, laid out or not, and panics in the index otherwise;
\* the four outputs are written from it.
layout_get_result(node) ==
    /\ ~aborted
    /\ IF node \in nodes
       THEN /\ out' = final_layout[node]
            /\ last' = Call("layout_get_result", <<node>>, 0, <<>>)
            /\ UNCHANGED <<nodes, nextId, style, children, parents, final_layout,
                           laidOut, aborted, budget>>
       ELSE Abort("layout_get_result", <<node>>)

\* TaffyTree::child_count: children[node].len().
child_count(ch, node) == Len(ch[node])
\* TaffyTree::child_at_index: children[node].get(index), zero-based.
child_at_index(ch, node, index) == ch[node][index + 1]

\* layout_child_count: the index panics on a handle that resolves to no node.
layout_child_count(node) ==
    /\ ~aborted
    /\ IF node \in nodes
       THEN /\ last' = Call("layout_child_count", <<node>>, child_count(children, node), <<>>)
            /\ UNCHANGED <<nodes, nextId, style, children, parents, final_layout,
                           laidOut, out, aborted, budget>>
       ELSE Abort("layout_child_count", <<node>>)

\* layout_get_child: child_at_index(..).unwrap() panics on an index past the
\* end of the list (Err) and on a handle that resolves to no node.
layout_get_child(node, index) ==
    /\ ~aborted
    /\ IF node \in nodes /\ index < child_count(children, node)
       THEN /\ last' = Call("layout_get_child", <<node, index>>,
                            child_at_index(children, node, index), <<>>)
            /\ UNCHANGED <<nodes, nextId, style, children, parents, final_layout,
                           laidOut, out, aborted, budget>>
       ELSE Abort("layout_get_child", <<node, index>>)

\* ------------------------------------------------------------ specifications
\* layout_tree_new: an empty TaffyTree; the caller's buffer holds its sentinel.
Init ==
    /\ nodes = {}
    /\ nextId = 1
    /\ style = <<>>
    /\ children = <<>>
    /\ parents = <<>>
    /\ final_layout = <<>>
    /\ laidOut = {}
    /\ out = SentinelBox
    /\ aborted = FALSE
    /\ budget = 0
    /\ last = Call("layout_tree_new", <<>>, 0, <<>>)

\* Topology, computation and read-back calls, in any order.
Next ==
    \/ layout_new_node
    \/ \E kids \in KidSeqs : layout_new_node_with_children(kids)
    \/ \E parent \in Handles, child \in Handles : layout_add_child(parent, child)
    \/ \E node \in Handles : layout_remove_node(node)
    \/ \E node \in Handles, width \in Avail, height \in Avail :
          layout_compute(node, width, height)
    \/ \E node \in Handles : layout_get_result(node)
    \/ \E node \in Handles : layout_child_count(node)
    \/ \E node \in Handles, index \in 0..MaxChildren : layout_get_child(node, index)

Spec == Init /\ [][Next]_vars

\* The calls that change the topology, in any order.
NextTopo ==
    \/ layout_new_node
    \/ \E kids \in KidSeqs : layout_new_node_with_children(kids)
    \/ \E parent \in Handles, child \in Handles : layout_add_child(parent, child)
    \/ \E node \in Handles : layout_remove_node(node)

SpecTopo == Init /\ [][NextTopo]_vars

\* The tree after layout_new_node, layout_new_node, layout_remove_node(2):
\* handle 1 is live, handle 2 was removed, handle 3 was never created.
StyledTree(commits) ==
    /\ nodes = {1}
    /\ nextId = 3
    /\ style = [n \in {1} |-> DefaultStyle]
    /\ children = [n \in {1} |-> <<>>]
    /\ parents = [n \in {1} |-> NoParent]
    /\ final_layout = [n \in {1} |-> ZeroBox]
    /\ laidOut = {}
    /\ out = SentinelBox
    /\ aborted = FALSE
    /\ budget = commits
    /\ last = Call("layout_remove_node", <<2>>, 0, <<>>)

InitStyle == StyledTree(MaxEdits)
InitEnum == StyledTree(MaxEnumEdits)

\* Handles a caller passes to a setter: live, removed, never created.
StyleHandles == 1..nextId
\* Handles of live nodes.
LiveHandles == nodes

\* Argument samples of the setters.
U8Few == {1, 99}
Floats == {10}
EdgesFew == {0, 4}
TracksFew == {<<100, -2, 0>>}

\* Every style setter, on any handle.
NextStyle ==
    \/ \E n \in StyleHandles, v \in U8Few : layout_set_display(n, v)
    \/ \E n \in StyleHandles, v \in U8Few : layout_set_flex_direction(n, v)
    \/ \E n \in StyleHandles, v \in U8Few : layout_set_flex_wrap(n, v)
    \/ \E n \in StyleHandles, v \in Floats : layout_set_flex_grow(n, v)
    \/ \E n \in StyleHandles, v \in Floats : layout_set_flex_shrink(n, v)
    \/ \E n \in StyleHandles, v \in Floats : layout_set_flex_basis(n, v)
    \/ \E n \in StyleHandles, v \in U8Few : layout_set_align_items(n, v)
    \/ \E n \in StyleHandles, v \in U8Few : layout_set_justify_content(n, v)
    \/ \E n \in StyleHandles, v \in U8Few : layout_set_align_self(n, v)
    \/ \E n \in StyleHandles, v \in Floats : layout_set_width(n, v)
    \/ \E n \in StyleHandles, v \in Floats : layout_set_height(n, v)
    \/ \E n \in StyleHandles, v \in Floats : layout_set_width_percent(n, v)
    \/ \E n \in StyleHandles, v \in Floats : layout_set_height_percent(n, v)
    \/ \E n \in StyleHandles, v \in Floats : layout_set_min_width(n, v)
    \/ \E n \in StyleHandles, v \in Floats : layout_set_min_height(n, v)
    \/ \E n \in StyleHandles, v \in Floats : layout_set_max_width(n, v)
    \/ \E n \in StyleHandles, v \in Floats : layout_set_max_height(n, v)
    \/ \E n \in StyleHandles, e \in EdgesFew, v \in Floats : layout_set_padding(n, e, v)
    \/ \E n \in StyleHandles, e \in EdgesFew, v \in Floats : layout_set_margin(n, e, v)
    \/ \E n \in StyleHandles, v \in Floats : layout_set_gap_row(n, v)
    \/ \E n \in StyleHandles, v \in Floats : layout_set_gap_column(n, v)
    \/ \E n \in StyleHandles, v \in Floats : layout_set_gap_all(n, v)
    \/ \E n \in StyleHandles, v \in U8Few : layout_set_position_type(n, v)
    \/ \E n \in StyleHandles, e \in EdgesFew, v \in Floats : layout_set_position(n, e, v)
    \/ \E n \in StyleHandles, v \in Floats : layout_set_aspect_ratio(n, v)
    \/ \E n \in StyleHandles, t \in TracksFew : layout_set_grid_template_columns(n, t)
    \/ \E n \in StyleHandles, t \in TracksFew : layout_set_grid_template_rows(n, t)
    \/ \E n \in StyleHandles, row \in {0, -1}, col \in {0, 2}, span \in {0, 3} :
          layout_set_grid_placement(n, row, col, span, span)
    \/ \E n \in StyleHandles, v \in U8Few : layout_set_overflow(n, v)

SpecStyle == InitStyle /\ [][NextStyle]_vars

\* The enumerated-value setters on live nodes, over every u8 value.
NextEnum ==
    \/ \E n \in LiveHandles, v \in 0..255 : layout_set_display(n, v)
    \/ \E n \in LiveHandles, v \in 0..255 : layout_set_flex_direction(n, v)
    \/ \E n \in LiveHandles, v \in 0..255 : layout_set_flex_wrap(n, v)
    \/ \E n \in LiveHandles, v \in 0..255 : layout_set_align_items(n, v)
    \/ \E n \in LiveHandles, v \in 0..255 : layout_set_justify_content(n, v)
    \/ \E n \in LiveHandles, v \in 0..255 : layout_set_align_self(n, v)
    \/ \E n \in LiveHandles, v \in 0..255 : layout_set_position_type(n, v)
    \/ \E n \in LiveHandles, v \in 0..255 : layout_set_overflow(n, v)

SpecEnum == InitEnum /\ [][NextEnum]_vars

\* Edge selectors (u8) and values of the edge-targeted setters.
Edges == 0..5 \cup {255}
EdgeVals == {10, 20}

\* The edge-targeted setters on live nodes.
NextEdge ==
    \/ \E n \in LiveHandles, e \in Edges, v \in EdgeVals : layout_set_padding(n, e, v)
    \/ \E n \in LiveHandles, e \in Edges, v \in EdgeVals : layout_set_margin(n, e, v)
    \/ \E n \in LiveHandles, e \in Edges, v \in EdgeVals : layout_set_position(n, e, v)

SpecEdge == InitStyle /\ [][NextEdge]_vars

\* Track values (fixed, flexible, auto) and the lists a caller passes.
TrackVals == {100, -2, 0}
TrackLists == UNION {[1..k -> TrackVals] : k \in 0..MaxTracks}

\* The grid-template setters on live nodes.
NextTrack ==
    \/ \E n \in LiveHandles, t \in TrackLists : layout_set_grid_template_columns(n, t)
    \/ \E n \in LiveHandles, t \in TrackLists : layout_set_grid_template_rows(n, t)

SpecTrack == InitStyle /\ [][NextTrack]_vars

\* ==================================================================== claims
SetterNames ==
    { "layout_set_display", "layout_set_flex_direction", "layout_set_flex_wrap",
      "layout_set_flex_grow", "layout_set_flex_shrink", "layout_set_flex_basis",
      "layout_set_align_items", "layout_set_justify_content", "layout_set_align_self",
      "layout_set_width", "layout_set_height", "layout_set_width_percent",
      "layout_set_height_percent", "layout_set_min_width", "layout_set_min_height",
      "layout_set_max_width", "layout_set_max_height", "layout_set_padding",
      "layout_set_margin", "layout_set_gap_row", "layout_set_gap_column",
      "layout_set_gap_all", "layout_set_position_type", "layout_set_position",
      "layout_set_aspect_ratio", "layout_set_grid_template_columns",
      "layout_set_grid_template_rows", "layout_set_grid_placement",
      "layout_set_overflow" }

\* C1: a style setter called with a handle that resolves to no live node
\* returns normally and leaves the live nodes, every Style and every child
\* list as they were.
C1_SetterOnDeadHandleIsNoOp ==
    [][ (last'.op \in SetterNames /\ last'.args[1] \notin nodes)
            => (~aborted' /\ UNCHANGED tree) ]_vars

\* C2: layout_remove_node on a handle that an earlier call already removed
\* returns normally and changes nothing.
C2_SecondRemoveIsNoOp ==
    [][ (/\ last'.op = "layout_remove_node"
         /\ last'.args[1] < nextId
         /\ last'.args[1] \notin nodes)
            => (~aborted' /\ UNCHANGED tree) ]_vars

\* C3 as stated: layout_remove_node(n) on a live node n detaches n from its
\* parent and deletes the whole subtree: afterwards neither n nor any
\* descendant of n is live.
C3_RemoveDeletesSubtree ==
    [][ (last'.op = "layout_remove_node" /\ last'.args[1] \in nodes)
            => LET n == last'.args[1]
               IN  /\ ~aborted'
                   /\ n \notin nodes'
                   /\ \A p \in nodes' : n \notin Range(children'[p])
                   /\ Descendants(children, n) \cap nodes' = {} ]_vars

\* C3 as amended: layout_remove_node(n) on a live node n deletes n alone.
\* n leaves the child list of its recorded parent and is no longer live;
\* every live descendant of n stays live and the nodes of n's child list
\* become parentless.  When n's child list holds a handle that is no longer
\* live the call aborts instead.
C3_RemoveDeletesNodeOnly ==
    [][ (last'.op = "layout_remove_node" /\ last'.args[1] \in nodes)
            => LET n == last'.args[1]
               IN  IF Range(children[n]) \subseteq nodes
                   THEN /\ ~aborted'
                        /\ nodes' = nodes \ {n}
                        /\ parents[n] \in nodes' => n \notin Range(children'[parents[n]])
                        /\ \A c \in Range(children[n]) \ {n} : parents'[c] = NoParent
                        /\ (Descendants(children, n) \cap nodes) \ {n} \subseteq nodes'
                   ELSE aborted' ]_vars

\* C3 witness: a node with live children was removed and they are still live,
\* without a parent.
C3_Witness ==
    /\ last.op = "layout_remove_node"
    /\ ~aborted
    /\ last.args[1] \notin nodes
    /\ Range(last.pre) \cap nodes # {}
    /\ \A c \in Range(last.pre) \cap nodes : parents[c] = NoParent

\* C4: for live parent and c, layout_add_child(parent, c) raises
\* layout_child_count(parent) by exactly 1, layout_get_child(parent, count - 1)
\* is then c, and the earlier children keep their positions.
C4_AddChildAppends ==
    [][ (/\ last'.op = "layout_add_child"
         /\ last'.args[1] \in nodes
         /\ last'.args[2] \in nodes)
            => LET p == last'.args[1]
                   c == last'.args[2]
                   before == child_count(children, p)
               IN  /\ ~aborted'
                   /\ child_count(children', p) = before + 1
                   /\ child_at_index(children', p, child_count(children', p) - 1) = c
                   /\ \A i \in 0..(before - 1) :
                          child_at_index(children', p, i) = child_at_index(children, p, i)
      ]_vars

\* C4 witness: a child was appended to a parent that already had children.
C4_Witness ==
    /\ last.op = "layout_add_child"
    /\ ~aborted
    /\ Len(last.pre) >= 1
    /\ children[last.args[1]] = Append(last.pre, last.args[2])

\* C5: layout_get_result writes the outputs only for a live node that has a
\* computed layout, and then writes its last-computed box; for a node never
\* laid out, or an invalid handle, the four outputs keep their values.
C5_GetResultOnlyWhenComputed ==
    [][ last'.op = "layout_get_result"
            => LET n == last'.args[1]
               IN  /\ ~aborted'
                   /\ IF n \in nodes /\ n \in laidOut
                      THEN out' = final_layout[n]
                      ELSE out' = out ]_vars

\* C6: layout_compute with a root handle that resolves to no live node
\* returns normally and changes no Style, topology or stored layout.
C6_ComputeOnDeadRootIsNoOp ==
    [][ (last'.op = "layout_compute" /\ last'.args[1] \notin nodes)
            => (~aborted' /\ UNCHANGED tree) ]_vars

\* The documented tables of the enumerated-value setters.
DocDisplay(v) == IF v = 1 THEN "None" ELSE IF v = 2 THEN "Grid"
                 ELSE IF v = 3 THEN "Block" ELSE "Flex"
DocFlexDirection(v) == IF v = 1 THEN "Row" ELSE IF v = 2 THEN "ColumnReverse"
                       ELSE IF v = 3 THEN "RowReverse" ELSE "Column"
DocFlexWrap(v) == IF v = 1 THEN "Wrap" ELSE IF v = 2 THEN "WrapReverse" ELSE "NoWrap"
DocAlign(v) == IF v = 2 THEN "Center" ELSE IF v = 3 THEN "FlexEnd"
               ELSE IF v = 4 THEN "Stretch" ELSE IF v = 5 THEN "Baseline"
               ELSE "FlexStart"
DocJustify(v) == IF v = 2 THEN "Center" ELSE IF v = 3 THEN "FlexEnd"
                 ELSE IF v = 4 THEN "SpaceBetween" ELSE IF v = 5 THEN "SpaceAround"
                 ELSE IF v = 6 THEN "SpaceEvenly" ELSE "FlexStart"
DocPositionType(v) == IF v = 1 THEN "Absolute" ELSE "Relative"
DocOverflow(v) == IF v = 1 THEN "Hidden" ELSE IF v = 2 THEN "Scroll" ELSE "Visible"

EnumSetterNames ==
    { "layout_set_display", "layout_set_flex_direction", "layout_set_flex_wrap",
      "layout_set_align_items", "layout_set_justify_content", "layout_set_align_self",
      "layout_set_position_type", "layout_set_overflow" }

\* C7: every enumerated-value setter accepts every u8 value on a live node and
\* stores the variant the documented table lists, the default variant for a
\* value outside the table.
C7_EnumTables ==
    (last.op \in EnumSetterNames /\ last.args[1] \in nodes)
        => LET s == style[last.args[1]]
               v == last.args[2]
           IN  /\ ~aborted
               /\ last.op = "layout_set_display" => s.display = DocDisplay(v)
               /\ last.op = "layout_set_flex_direction"
                      => s.flex_direction = DocFlexDirection(v)
               /\ last.op = "layout_set_flex_wrap" => s.flex_wrap = DocFlexWrap(v)
               /\ last.op = "layout_set_align_items" => s.align_items = Some(DocAlign(v))
               /\ last.op = "layout_set_align_self" => s.align_self = Some(DocAlign(v))
               /\ last.op = "layout_set_justify_content"
                      => s.justify_content = Some(DocJustify(v))
               /\ last.op = "layout_set_position_type" => s.position = DocPositionType(v)
               /\ last.op = "layout_set_overflow"
                      => s.overflow = [x |-> DocOverflow(v), y |-> DocOverflow(v)]

\* C7 witness: an out-of-range value was passed and the default variant of
\* the table (not the variant of a new node) is stored.
C7_Witness ==
    /\ last.op = "layout_set_flex_direction"
    /\ last.args = <<1, 99>>
    /\ ~aborted
    /\ style[1].flex_direction = "Column"
    /\ DefaultStyle.flex_direction # "Column"

EdgeSetterNames == {"layout_set_padding", "layout_set_margin", "layout_set_position"}
\* The Style field an edge-targeted setter writes.
RectOf(fn) ==
    CASE fn = "layout_set_padding" -> "padding"
      [] fn = "layout_set_margin" -> "margin"
      [] fn = "layout_set_position" -> "inset"
\* The documented edge selectors.
EdgeName(e) ==
    CASE e = 0 -> "left" [] e = 1 -> "top" [] e = 2 -> "right" [] e = 3 -> "bottom"
\* The orders in which the four single-edge calls can be made.
EdgeOrders == {o \in [1..4 -> 0..3] : \A i, j \in 1..4 : i # j => o[i] # o[j]}
\* The Style after four calls of setter fn with selectors o[1], .., o[4].
FourCalls(fn, o, v, s) ==
    apply_facet(fn, <<o[4], v>>,
        apply_facet(fn, <<o[3], v>>,
            apply_facet(fn, <<o[2], v>>,
                apply_facet(fn, <<o[1], v>>, s))))

\* C8: on a live node, one call of an edge-targeted setter with a selector
\* >= 4 leaves the Style that four calls with selectors 0, 1, 2, 3 (in any
\* order) and the same value leave; a call with a selector 0..3 changes that
\* one edge and nothing else.
C8_AllEdgesSentinel ==
    [][ (last'.op \in EdgeSetterNames /\ last'.args[1] \in nodes)
            => LET fn == last'.op
                   n == last'.args[1]
                   e == last'.args[2]
                   v == last'.args[3]
                   r == RectOf(fn)
               IN  /\ ~aborted'
                   /\ IF e >= 4
                      THEN \A o \in EdgeOrders : style'[n] = FourCalls(fn, o, v, style[n])
                      ELSE /\ style'[n][r] = [style[n][r] EXCEPT ![EdgeName(e)] = Length(v)]
                           /\ [style'[n] EXCEPT ![r] = style[n][r]] = style[n]
      ]_vars

\* C8 witness: a call with selector 255 set all four padding edges of a node
\* whose margin an earlier call had changed, and the margin is kept.
C8_Witness ==
    /\ last.op = "layout_set_padding"
    /\ last.args = <<1, 255, 20>>
    /\ ~aborted
    /\ style[1].padding = Rect(Length(20))
    /\ style[1].margin.top = Length(10)
    /\ style[1].margin.left = Length(0)

\* The track specifications of the grid template, as stored.
Fixed(len) == [min |-> Length(len), max |-> Length(len)]
Flexible(share) == [min |-> Length(0), max |-> Fr(share)]
AutoTrack == [min |-> Auto, max |-> Auto]

\* C9: a grid-template setter stores exactly one track per value, in order:
\* Fixed(v) for v > 0, Flexible(|v|) for v < 0, Auto for v = 0; the empty
\* list gives the empty template.
C9_TrackDecoding ==
    (/\ last.op \in {"layout_set_grid_template_columns", "layout_set_grid_template_rows"}
     /\ last.args[1] \in nodes)
        => LET vals == last.args[2]
               s == style[last.args[1]]
               t == IF last.op = "layout_set_grid_template_columns"
                    THEN s.grid_template_columns ELSE s.grid_template_rows
           IN  /\ ~aborted
               /\ Len(t) = Len(vals)
               /\ vals = <<>> => t = <<>>
               /\ \A i \in 1..Len(vals) :
                      /\ vals[i] > 0 => t[i] = Fixed(vals[i])
                      /\ vals[i] < 0 => t[i] = Flexible(0 - vals[i])
                      /\ vals[i] = 0 => t[i] = AutoTrack

\* C9 witness: [100, -2, 0] was decoded to [Fixed(100), Flexible(2), Auto].
C9_Witness ==
    /\ last.op = "layout_set_grid_template_columns"
    /\ last.args = <<1, <<100, -2, 0>>>>
    /\ ~aborted
    /\ style[1].grid_template_columns = <<Fixed(100), Flexible(2), AutoTrack>>

\* The places (parent, position) where live node c is listed as a child.
Listings(c) ==
    {pi \in nodes \X (1..MaxChildren) :
        pi[2] <= Len(children[pi[1]]) /\ children[pi[1]][pi[2]] = c}

\* C10: after any calls made with live handles, every live node is listed in
\* the child list of at most one node, and at most once.
C10_SingleListing ==
    ~aborted => \A c \in nodes : Cardinality(Listings(c)) <= 1

====
